---- MODULE Spec2Model ----
(***************************************************************************)
(* A model of src/jmapserver.js: the JMAPServer record store of one type   *)
(* ('Email'), its Meta watermark, the mutation engine addRecords and the   *)
(* change engine changes.                                                  *)
(***************************************************************************)
EXTENDS Integers, Sequences, FiniteSets, TLC

\* ------------------------------------------------------------------------
\* Bounds of the model
\* ------------------------------------------------------------------------
\* highestModSeq is not allowed to grow past this value
MaxModSeq == 4
\* longest records[] array handed to addRecords
MaxBatch == 2

\* ------------------------------------------------------------------------
\* JavaScript values that reach the code
\* ------------------------------------------------------------------------
\* A string is a sequence of one-character strings.
JSUndefined == [type |-> "undefined", n |-> 0, chars |-> <<>>]
JSNum(k) == [type |-> "number", n |-> k, chars |-> <<>>]
JSStr(s) == [type |-> "string", n |-> 0, chars |-> s]

Digits == <<"0", "1", "2", "3", "4", "5", "6", "7", "8", "9">>

IsDigit(c) == \E i \in 1..Len(Digits) : Digits[i] = c

DigitVal(c) == (CHOOSE i \in 1..Len(Digits) : Digits[i] = c) - 1

\* Number -> String, as `upToModSeq + ''` and `'' + modseq` do for integers.
RECURSIVE NatToString(_)
NatToString(k) ==
    IF k < 10 THEN <<Digits[k + 1]>>
    ELSE Append(NatToString(k \div 10), Digits[(k % 10) + 1])

NumberToString(k) == IF k < 0 THEN <<"-">> \o NatToString(0 - k) ELSE NatToString(k)

\* parseInt(string, 10): leading white space is skipped, one sign is taken,
\* then the longest run of decimal digits; no digit at all gives NaN.
RECURSIVE SkipSpaces(_)
SkipSpaces(s) ==
    IF s # <<>> /\ Head(s) = " " THEN SkipSpaces(Tail(s)) ELSE s

RECURSIVE DigitRun(_)
DigitRun(s) ==
    IF s # <<>> /\ IsDigit(Head(s)) THEN <<Head(s)>> \o DigitRun(Tail(s))
    ELSE <<>>

RECURSIVE DigitsValue(_, _)
DigitsValue(s, acc) ==
    IF s = <<>> THEN acc
    ELSE DigitsValue(Tail(s), (10 * acc) + DigitVal(Head(s)))

parseInt(s) ==
    LET t == SkipSpaces(s)
        neg == t # <<>> /\ Head(t) = "-"
        signed == t # <<>> /\ Head(t) \in {"-", "+"}
        run == DigitRun(IF signed THEN Tail(t) ELSE t)
    IN  IF run = <<>> THEN [isNaN |-> TRUE, val |-> 0]
        ELSE [isNaN |-> FALSE,
              val |-> IF neg THEN 0 - DigitsValue(run, 0)
                      ELSE DigitsValue(run, 0)]

\* ------------------------------------------------------------------------
\* Records of the type store
\* ------------------------------------------------------------------------
\* Primary keys in use, in the key order of the object store.
IdSeq == <<"a", "b", "c">>
Ids == {IdSeq[i] : i \in 1..Len(IdSeq)}
KeyOrder(id) == CHOOSE i \in 1..Len(IdSeq) : IdSeq[i] = id

\* record.id of an incoming record: a key, the empty string, or no id at all
NoId == "<undefined>"
EmptyId == ""

\* One data field ('subject') stands for the ...fields of a record. A field
\* is absent from the object, or holds null, or holds a value. 'threadId'
\* is the field the index 'byThreadId' is built on.
Absent == "<absent>"
FieldVals == {Absent, "null", "x"}

\* typeStore.get(id) of a key that holds no record gives undefined
NoRecord == [present |-> FALSE, createdModSeq |-> 0, updatedModSeq |-> 0,
             deleted |-> FALSE, subject |-> Absent, threadId |-> Absent]

\* ------------------------------------------------------------------------
\* State
\* ------------------------------------------------------------------------
Writers == {1, 2}

VARIABLES
    store,       \* the 'Email' object store: primary key -> stored record
    meta,        \* the Meta entry of the type: highestModSeq, lowestModSeq
    wpc,         \* per addRecords call: "idle", "queued" or "active"
    wrecords,    \* the records[] argument of the transaction that is open
    wmeta,       \* `meta` as read by the open transaction (line 68)
    wexisting,   \* `existing` as read by the open transaction (line 69)
    assigned,    \* history: the modseq values of the committed record writes
    lastWrite,   \* history: the addRecords transaction that just ended
    lastCall,    \* history: the changes call that just returned
    chain,       \* history: a client paging through changes
    rd,          \* a get or changes call: its arguments, snapshot, response
    proc         \* a process call: its request, position, output

vars == <<store, meta, wpc, wrecords, wmeta, wexisting, assigned, lastWrite,
          lastCall, chain, rd, proc>>

\* what the actions of addRecords and of the paging client leave alone
readvars == <<rd, proc>>

\* ------------------------------------------------------------------------
\* addRecords
\* ------------------------------------------------------------------------
\* !record.id
IdIsFalsy(id) == id = NoId \/ id = EmptyId

\* typeStore.get(key): undefined is not a valid key and the request throws a
\* DataError; the empty string is a valid key.
IsValidKey(id) == id # NoId

Lookup(st, id) == IF id \in DOMAIN st THEN st[id] ELSE NoRecord

\* {...prevValue, ...record}: a field the incoming record carries wins
SpreadField(prev, incoming) == IF incoming = Absent THEN prev ELSE incoming

\* the object handed to typeStore.put
MergedRecord(prevValue, record, modseq) ==
    [present |-> TRUE,
     createdModSeq |-> IF prevValue.present THEN prevValue.createdModSeq
                       ELSE modseq,
     updatedModSeq |-> modseq,
     deleted |-> FALSE,
     subject |-> SpreadField(prevValue.subject, record.subject),
     threadId |-> SpreadField(prevValue.threadId, record.threadId)]

\* (mutant of ModSeqAt) modseq is advanced once for the whole batch
ModSeqAtOncePerBatch(base, i) == base + 1

\* `modseq += 1` once per record: the value the i-th record is given
ModSeqAt(base, i) == base + i

\* records.forEach: the puts of records 1..n, in order
RECURSIVE PutAll(_, _, _, _, _)
PutAll(st, records, existing, base, n) ==
    IF n = 0 THEN st
    ELSE LET before == PutAll(st, records, existing, base, n - 1)
         IN  [before EXCEPT ![records[n].id] =
                 MergedRecord(existing[n], records[n], ModSeqAt(base, n))]

\* (mutant of AdvancedMeta) the watermark moves by one per batch
AdvancedMetaByOne(mt, modseq) == [mt EXCEPT !.highestModSeq = @ + 1]

\* metaStore.put({...meta, highestModSeq: modseq})
AdvancedMeta(mt, modseq) == [mt EXCEPT !.highestModSeq = modseq]

NoWrite == [valid |-> FALSE, records |-> <<>>, before |-> <<>>,
            beforeHighest |-> 0, outcome |-> "none"]


\* ------------------------------------------------------------------------
\* changes
\* ------------------------------------------------------------------------
MaxChangesCap == 1024

\* (mutant of EffectiveMaxChanges) the argument is ignored
EffectiveMaxChangesIgnored(arg) == MaxChangesCap

\* `args.maxChanges || 0`, then the reset of anything outside 1..1024
EffectiveMaxChanges(arg) ==
    LET given == IF arg.type = "number" THEN arg.n ELSE 0
    IN  IF given > 0 /\ given <= MaxChangesCap THEN given ELSE MaxChangesCap

\* (mutant of InRange) the lower bound of the key range is closed
InRangeClosed(st, sinceModSeq) ==
    {id \in DOMAIN st : st[id].present /\ st[id].updatedModSeq >= sinceModSeq}

\* The records the cursor over index 'byModSeq' yields for
\* IDBKeyRange.lowerBound(sinceModSeq, true), direction 'next': ascending
\* _updatedModSeq, equal index keys in primary key order.
InRange(st, sinceModSeq) ==
    {id \in DOMAIN st : st[id].present /\ st[id].updatedModSeq > sinceModSeq}

IndexBefore(st, x, y) ==
    \/ st[x].updatedModSeq < st[y].updatedModSeq
    \/ st[x].updatedModSeq = st[y].updatedModSeq /\ KeyOrder(x) <= KeyOrder(y)

RECURSIVE CursorOrder(_, _)
CursorOrder(st, idset) ==
    IF idset = {} THEN <<>>
    ELSE LET first == CHOOSE x \in idset : \A y \in idset : IndexBefore(st, x, y)
         IN  <<first>> \o CursorOrder(st, idset \ {first})

\* (mutant of IsCreated) the test reads _updatedModSeq
IsCreatedByUpdate(record, sinceModSeq) == record.updatedModSeq > sinceModSeq

\* record._createdModSeq > sinceModSeq
IsCreated(record, sinceModSeq) == record.createdModSeq > sinceModSeq

\* (mutant of Classify) every tombstone is pushed to destroyed
ClassifyEveryTombstone(record, sinceModSeq) ==
    IF record.deleted THEN "destroyed"
    ELSE IF IsCreated(record, sinceModSeq) THEN "created" ELSE "updated"

\* which list the loop body pushes the record's id to, if any
Classify(record, sinceModSeq) ==
    IF record.deleted
    THEN IF ~IsCreated(record, sinceModSeq) THEN "destroyed" ELSE "none"
    ELSE IF IsCreated(record, sinceModSeq) THEN "created" ELSE "updated"

\* the ids of `visited` pushed to list `which`, in visiting order
RECURSIVE Pushed(_, _, _, _)
Pushed(st, visited, sinceModSeq, which) ==
    IF visited = <<>> THEN <<>>
    ELSE LET rest == Pushed(st, Tail(visited), sinceModSeq, which)
         IN  IF Classify(st[Head(visited)], sinceModSeq) = which
             THEN <<Head(visited)>> \o rest
             ELSE rest

\* (mutant of Visited) the loop stops one record late
VisitedOneMore(cursor, maxChanges) ==
    IF Len(cursor) > maxChanges THEN SubSeq(cursor, 1, maxChanges + 1)
    ELSE cursor

\* the loop stops before the record that would be number maxChanges + 1
Visited(cursor, maxChanges) ==
    IF Len(cursor) > maxChanges THEN SubSeq(cursor, 1, maxChanges) ELSE cursor

\* (mutant of StopsEarly) the loop breaks once maxChanges records are read
StopsEarlyAtLimit(cursor, maxChanges) == Len(cursor) >= maxChanges

\* `count === maxChanges` is tested when the cursor yields another record
StopsEarly(cursor, maxChanges) == Len(cursor) > maxChanges

\* (mutant of Expired) a token equal to lowestModSeq is refused too
ExpiredAtFloor(mt, sinceModSeq) == mt.lowestModSeq >= sinceModSeq

\* meta.lowestModSeq > sinceModSeq
Expired(mt, sinceModSeq) == mt.lowestModSeq > sinceModSeq

\* (mutant of UpToModSeq) the watermark is returned even when the loop broke
UpToModSeqIsWatermark(st, mt, visited, hasMoreChanges) == mt.highestModSeq

\* upToModSeq after the loop: the _updatedModSeq of the last record visited
\* when the loop broke off, meta.highestModSeq when the cursor ran out
UpToModSeq(st, mt, visited, hasMoreChanges) ==
    IF hasMoreChanges THEN st[visited[Len(visited)]].updatedModSeq
    ELSE mt.highestModSeq

ChangesError(sinceState, maxChangesArg, errType) ==
    [valid |-> TRUE, sinceState |-> sinceState, maxChanges |-> maxChangesArg,
     ok |-> FALSE, type |-> errType, oldState |-> sinceState,
     newState |-> <<>>, hasMoreChanges |-> FALSE,
     created |-> <<>>, updated |-> <<>>, destroyed |-> <<>>, visited |-> <<>>]

ChangesOk(sinceState, maxChangesArg, upToModSeq, more, cr, up, de, vis) ==
    [valid |-> TRUE, sinceState |-> sinceState, maxChanges |-> maxChangesArg,
     ok |-> TRUE, type |-> "", oldState |-> sinceState,
     newState |-> NumberToString(upToModSeq), hasMoreChanges |-> more,
     created |-> cr, updated |-> up, destroyed |-> de, visited |-> vis]

\* changes(typeName, {sinceState, maxChanges}) on the snapshot (st, mt)
Changes(st, mt, sinceState, maxChangesArg) ==
    LET maxChanges == EffectiveMaxChanges(maxChangesArg)
        parsed == parseInt(sinceState.chars)
        sinceModSeq == parsed.val
        cursor == CursorOrder(st, InRange(st, sinceModSeq))
        visited == Visited(cursor, maxChanges)
        hasMoreChanges == StopsEarly(cursor, maxChanges)
        upToModSeq == UpToModSeq(st, mt, visited, hasMoreChanges)
    IN  IF sinceState.type # "string"
        THEN ChangesError(sinceState, maxChangesArg, "invalidArguments")
        ELSE IF parsed.isNaN
        THEN ChangesError(sinceState, maxChangesArg, "cannotCalculateChanges")
        ELSE IF Expired(mt, sinceModSeq)
        THEN ChangesError(sinceState, maxChangesArg, "cannotCalculateChanges")
        ELSE IF mt.highestModSeq = sinceModSeq
        THEN ChangesOk(sinceState, maxChangesArg, sinceModSeq, FALSE,
                       <<>>, <<>>, <<>>, <<>>)
        ELSE ChangesOk(sinceState, maxChangesArg, upToModSeq, hasMoreChanges,
                       Pushed(st, visited, sinceModSeq, "created"),
                       Pushed(st, visited, sinceModSeq, "updated"),
                       Pushed(st, visited, sinceModSeq, "destroyed"),
                       visited)

NoCall == [valid |-> FALSE, sinceState |-> JSUndefined,
           maxChanges |-> JSUndefined, ok |-> FALSE, type |-> "",
           oldState |-> JSUndefined, newState |-> <<>>,
           hasMoreChanges |-> FALSE, created |-> <<>>, updated |-> <<>>,
           destroyed |-> <<>>, visited |-> <<>>]

NoChain == [valid |-> FALSE, S |-> 0, M |-> JSUndefined, next |-> <<>>,
            pages |-> 0, created |-> <<>>, updated |-> <<>>,
            destroyed |-> <<>>, visited |-> <<>>, done |-> FALSE]

\* ------------------------------------------------------------------------
\* get
\* ------------------------------------------------------------------------
\* the cap passed to the constructor as options.maxObjectsInGet
OptionsMaxObjectsInGet == 2

JSNull == [type |-> "null", n |-> 0, chars |-> <<>>]
JSTrue == [type |-> "boolean", n |-> 1, chars |-> <<>>]
JSArray(q) == [type |-> "array", n |-> 0, chars |-> q]

\* `x == null`
IsNullish(v) == v.type \in {"null", "undefined"}

\* `n > v` for a number n and any value v: false against undefined (NaN)
GreaterThan(n, v) == v.type = "number" /\ n > v.n

\* The constructor stores accountId, methods and db, and nothing else of
\* its options: the field maxObjectsInGet of the server is never assigned.
NewServer(options) == [maxObjectsInGet |-> JSUndefined]

\* the server of the demo, built with a cap
Server == NewServer([maxObjectsInGet |-> JSNum(OptionsMaxObjectsInGet)])

\* The object a stored record is: its key, the three fields addRecords
\* writes, and the data fields it was given.
StoredKeys(rec) ==
    {"id", "_createdModSeq", "_updatedModSeq", "_deleted"}
    \cup (IF rec.subject = Absent THEN {} ELSE {"subject"})
    \cup (IF rec.threadId = Absent THEN {} ELSE {"threadId"})

FieldValue(v) == IF v = "null" THEN JSNull ELSE JSStr(<<v>>)

StoredObject(id, rec) ==
    [k \in StoredKeys(rec) |->
        CASE k = "id" -> JSStr(<<id>>)
          [] k = "_createdModSeq" -> JSNum(rec.createdModSeq)
          [] k = "_updatedModSeq" -> JSNum(rec.updatedModSeq)
          [] k = "_deleted" -> IF rec.deleted THEN JSTrue ELSE JSNull
          [] k = "subject" -> FieldValue(rec.subject)
          [] k = "threadId" -> FieldValue(rec.threadId)]

\* `val[prop]`
Prop(obj, k) == IF k \in DOMAIN obj THEN obj[k] ELSE JSUndefined

\* what a fetch strategy resolves one id to: null, or an object
NullResult == [isNull |-> TRUE, obj |-> <<>>]
ObjectResult(obj) == [isNull |-> FALSE, obj |-> obj]

Elements(q) == {q[i] : i \in 1..Len(q)}

\* lines 17-22: the object with id and the requested non-null properties
Projected(val, properties) ==
    [k \in {"id"} \cup {p \in Elements(properties) : ~IsNullish(Prop(val, p))}
        |-> Prop(val, k)]

\* lines 10-24: directGetProperties for one id
DirectGetOne(st, id, properties) ==
    IF ~Lookup(st, id).present THEN NullResult
    ELSE IF ~properties.given THEN ObjectResult(StoredObject(id, st[id]))
    ELSE ObjectResult(Projected(StoredObject(id, st[id]), properties.names))

\* index.getAll(id) over 'byThreadId': the records whose threadId is id
ThreadGroup(st, tid) ==
    {id \in DOMAIN st : st[id].present /\ st[id].threadId = tid}

\* emails.sort(...): no record of the model carries receivedAt, so the
\* comparator answers 1 for every pair and the order the sort leaves is up
\* to the engine; `rank` is the order it happens to produce.
RECURSIVE SortedBy(_, _)
SortedBy(idset, rank) ==
    IF idset = {} THEN <<>>
    ELSE LET first == CHOOSE x \in idset : \A y \in idset : rank[x] <= rank[y]
         IN  <<first>> \o SortedBy(idset \ {first}, rank)

\* lines 309-319: the Thread/get strategy for one id
ThreadGetOne(st, tid, rank) ==
    IF ThreadGroup(st, tid) = {} THEN NullResult
    ELSE ObjectResult([k \in {"id", "emailIds"} |->
             IF k = "id" THEN JSStr(<<tid>>)
             ELSE JSArray(SortedBy(ThreadGroup(st, tid), rank))])

FetchOne(st, id, properties, fetch, rank) ==
    IF fetch = "thread" THEN ThreadGetOne(st, id, rank)
    ELSE DirectGetOne(st, id, properties)

\* (mutant of Found) the values are collected from the last id to the first
RECURSIVE FoundReversed(_)
FoundReversed(result) ==
    IF result = <<>> THEN <<>>
    ELSE LET rest == FoundReversed(Tail(result))
         IN  IF ~Head(result).isNull THEN rest \o <<Head(result).obj>>
             ELSE rest

\* lines 269-275: the values pushed to found, in order
RECURSIVE Found(_)
Found(result) ==
    IF result = <<>> THEN <<>>
    ELSE LET rest == Found(Tail(result))
         IN  IF ~Head(result).isNull THEN <<Head(result).obj>> \o rest
             ELSE rest

\* lines 269-275: the ids pushed to notFound, in order
RECURSIVE NotFound(_, _)
NotFound(result, ids) ==
    IF result = <<>> THEN <<>>
    ELSE LET rest == NotFound(Tail(result), Tail(ids))
         IN  IF Head(result).isNull THEN <<Head(ids)>> \o rest ELSE rest

\* typeStore.getAll(null): every stored object, in primary key order
RECURSIVE GetAll(_, _)
GetAll(st, n) ==
    IF n = 0 THEN <<>>
    ELSE GetAll(st, n - 1) \o
         (IF st[IdSeq[n]].present
          THEN <<StoredObject(IdSeq[n], st[IdSeq[n]])>> ELSE <<>>)

\* typeStore.count()
Count(st) == Cardinality({id \in DOMAIN st : st[id].present})

GetResponse(args, fetch, outcome, errType, transaction, state, list, nf) ==
    [valid |-> TRUE, args |-> args, fetch |-> fetch, outcome |-> outcome,
     type |-> errType, transaction |-> transaction, state |-> state,
     list |-> list, notFound |-> nf]

\* get(typeName, {ids, properties}, fetch) on the snapshot (st, mt).
\* args.ids is absent, or an array of ids, or a value that is no array.
Get(server, st, mt, args, fetch, rank) ==
    LET ids == args.ids
        state == NumberToString(mt.highestModSeq)
        result == [i \in 1..Len(ids.list) |->
                      FetchOne(st, ids.list[i], args.properties, fetch, rank)]
    IN  IF ids.kind = "array"
           /\ GreaterThan(Len(ids.list), server.maxObjectsInGet)
        THEN GetResponse(args, fetch, "error", "requestTooLarge", FALSE,
                         <<>>, <<>>, <<>>)
        ELSE IF ids.kind = "null"
        THEN IF GreaterThan(Count(st), server.maxObjectsInGet)
             THEN GetResponse(args, fetch, "error", "requestTooLarge", TRUE,
                              <<>>, <<>>, <<>>)
             ELSE GetResponse(args, fetch, "ok", "", TRUE, state,
                              GetAll(st, Len(IdSeq)), <<>>)
        ELSE IF ids.kind # "array"
        THEN GetResponse(args, fetch, "throw", "TypeError", TRUE,
                         <<>>, <<>>, <<>>)
        ELSE IF fetch = "direct"
                /\ \E i \in 1..Len(ids.list) : ~IsValidKey(ids.list[i])
        THEN GetResponse(args, fetch, "throw", "DataError", TRUE,
                         <<>>, <<>>, <<>>)
        ELSE GetResponse(args, fetch, "ok", "", TRUE, state,
                         Found(result), NotFound(result, ids.list))

NoArgs == [ids |-> [kind |-> "null", list |-> <<>>],
           properties |-> [given |-> FALSE, names |-> <<>>]]

NoGet == [valid |-> FALSE, args |-> NoArgs, fetch |-> "direct",
          outcome |-> "none", type |-> "", transaction |-> FALSE,
          state |-> <<>>, list |-> <<>>, notFound |-> <<>>]

\* ------------------------------------------------------------------------
\* Inputs
\* ------------------------------------------------------------------------
RECURSIVE SeqsUpTo(_, _)
SeqsUpTo(S, n) ==
    IF n = 0 THEN {<<>>}
    ELSE LET shorter == SeqsUpTo(S, n - 1)
         IN  shorter \cup {Append(q, x) : q \in shorter, x \in S}

\* records that carry a key and no data field
PlainRecords ==
    {[id |-> id, subject |-> Absent, threadId |-> Absent] : id \in Ids}

\* records with or without an id, with or without the data field
AnyRecords ==
    {[id |-> id, subject |-> v, threadId |-> Absent] :
        id \in {"a", "b"}, v \in {Absent, "x"}}
    \cup {[id |-> id, subject |-> Absent, threadId |-> Absent] :
              id \in {NoId, EmptyId}}

SinceStates ==
    {JSStr(NumberToString(k)) : k \in 0..(MaxModSeq + 1)}
    \cup {JSStr(<<>>), JSStr(<<"a", "d", "s", "f">>), JSStr(<<"-", "1">>),
          JSStr(<<"1", "x">>), JSStr(<<" ", "0", "2">>), JSStr(<<"1", "0">>),
          JSUndefined, JSNum(1)}

MaxChangesArgs == {JSUndefined, JSNum(0), JSNum(1), JSNum(2), JSNum(1025)}

\* maxChanges missing, zero, negative, in range, at the cap, above the cap
WideMaxChangesArgs ==
    {JSUndefined, JSNum(0), JSNum(-1), JSNum(1), JSNum(2),
     JSNum(MaxChangesCap), JSNum(MaxChangesCap + 1)}

WideSinceStates == {JSStr(<<"0">>), JSStr(<<"1">>)}

\* the ids lists a client passes to get: arrays of record ids with absent
\* ids and repeats, an array longer than the cap, an array holding undefined
IdsArgs ==
    {[kind |-> "null", list |-> <<>>], [kind |-> "number", list |-> <<>>]}
    \cup {[kind |-> "array", list |-> q] :
              q \in {<<"c", "a">>, <<"b", "z", "a">>, <<"a", NoId>>,
                     [i \in 1..(OptionsMaxObjectsInGet + 1) |-> "a"]}}

\* the ids lists a client passes to Thread/get
ThreadIdsArgs ==
    {[kind |-> "array", list |-> q] :
        q \in {<<"u", "t">>, <<"v", "t", "u">>}}

PropertiesArgs ==
    {[given |-> FALSE, names |-> <<>>]}
    \cup {[given |-> TRUE, names |-> q] :
              q \in {<<"subject">>, <<"threadId", "body">>}}

GetArgs == [ids : IdsArgs, properties : PropertiesArgs]
ThreadGetArgs == [ids : ThreadIdsArgs, properties : {NoArgs.properties}]

\* the rankings the sort of a thread's emails can come out as
Ranks == {f \in [Ids -> 1..Cardinality(Ids)] :
             \A x, y \in Ids : x # y => f[x] # f[y]}

\* records with data fields: a subject, a null subject, a thread
DataRecords ==
    {[id |-> "a", subject |-> "x", threadId |-> "t"],
     [id |-> "a", subject |-> "null", threadId |-> "u"],
     [id |-> "b", subject |-> Absent, threadId |-> "t"],
     [id |-> "c", subject |-> "x", threadId |-> Absent]}

DataBatches == {<<r>> : r \in DataRecords}

\* ------------------------------------------------------------------------
\* process: requests
\* ------------------------------------------------------------------------
\* the arguments object of an invocation: {} plus the fields given
ArgsObject == [kind |-> "object", ids |-> NoArgs.ids,
               properties |-> NoArgs.properties,
               sinceState |-> JSUndefined, maxChanges |-> JSUndefined]

\* an element of methodCalls that is an array: its length and its first
\* three elements (undefined beyond the length)
Item(len, name, args, callId) ==
    [isArray |-> TRUE, len |-> len, name |-> name, args |-> args,
     callId |-> callId]

\* an element of methodCalls that is a string
StringItem == [isArray |-> FALSE, len |-> 0, name |-> JSUndefined,
               args |-> [ArgsObject EXCEPT !.kind = "undefined"],
               callId |-> JSUndefined]

MethodName(q) == JSStr(q)
CallIds == {JSStr(<<"c", "1">>), JSStr(<<"c", "2">>)}

\* 3-element invocations [name, args, callId]: get of everything, get by
\* ids, get with an ids that is no array, changes, changes with a bad
\* token, Thread/get, a method the server does not have
WellFormedItems ==
    {Item(3, MethodName(<<"Email/get">>), ArgsObject, JSStr(<<"c", "1">>)),
     Item(3, MethodName(<<"Email/get">>),
          [ArgsObject EXCEPT !.ids = [kind |-> "array", list |-> <<"c", "a">>]],
          JSStr(<<"c", "2">>)),
     Item(3, MethodName(<<"Email/get">>),
          [ArgsObject EXCEPT !.ids = [kind |-> "number", list |-> <<>>]],
          JSStr(<<"c", "1">>)),
     Item(3, MethodName(<<"Email/changes">>),
          [ArgsObject EXCEPT !.sinceState = JSStr(<<"0">>)],
          JSStr(<<"c", "1">>)),
     Item(3, MethodName(<<"Email/changes">>),
          [ArgsObject EXCEPT !.sinceState = JSStr(<<"a", "d", "s", "f">>)],
          JSStr(<<"c", "2">>)),
     Item(3, MethodName(<<"Thread/get">>),
          [ArgsObject EXCEPT !.ids = [kind |-> "array", list |-> <<"u", "t">>]],
          JSStr(<<"c", "1">>)),
     Item(3, MethodName(<<"Foo/bar">>), ArgsObject, JSStr(<<"c", "2">>))}

\* elements that are no 3-element invocation: callId missing, callId a
\* number, a fourth element, name a number, args null, args a string, an
\* element that is no array
MalformedItems ==
    {Item(2, MethodName(<<"Email/get">>), ArgsObject, JSUndefined),
     Item(3, MethodName(<<"Email/get">>), ArgsObject, JSNum(7)),
     Item(4, MethodName(<<"Email/get">>), ArgsObject, JSStr(<<"c", "1">>)),
     Item(3, JSNum(7), ArgsObject, JSStr(<<"c", "1">>)),
     Item(3, MethodName(<<"Email/get">>),
          [ArgsObject EXCEPT !.kind = "null"], JSStr(<<"c", "1">>)),
     Item(3, MethodName(<<"Email/get">>),
          [ArgsObject EXCEPT !.kind = "string"], JSStr(<<"c", "1">>)),
     StringItem}

Items == WellFormedItems \cup MalformedItems

\* request: null; an object without methodCalls; with a methodCalls that
\* is a string; with a methodCalls array of up to two elements
Request(present, kind, items) ==
    [present |-> present, kind |-> kind, methodCalls |-> items]

Requests ==
    {Request(FALSE, "absent", <<>>), Request(TRUE, "absent", <<>>),
     Request(TRUE, "string", <<>>), Request(TRUE, "array", <<>>)}
    \cup {Request(TRUE, "array", <<x>>) : x \in Items}
    \cup {Request(TRUE, "array", <<x, y>>) : x \in Items, y \in Items}

NoProcess == [pc |-> "idle", request |-> Request(FALSE, "absent", <<>>),
              i |-> 0, output |-> <<>>, log |-> <<>>, error |-> ""]

\* batches committed while reads are under way: one record, two records
ReaderBatches ==
    {<<[id |-> "a", subject |-> Absent, threadId |-> Absent]>>,
     <<[id |-> "b", subject |-> Absent, threadId |-> Absent],
       [id |-> "c", subject |-> Absent, threadId |-> Absent]>>,
     <<[id |-> "c", subject |-> Absent, threadId |-> Absent],
       [id |-> "a", subject |-> Absent, threadId |-> Absent]>>}

\* the reads made while batches are committed
ReaderSinceStates == {JSStr(<<"0">>), JSStr(<<"1">>), JSStr(<<"2">>)}
ReaderMaxChanges == {JSUndefined, JSNum(1)}
ReaderGetArgs ==
    {NoArgs, [NoArgs EXCEPT !.ids = [kind |-> "array", list |-> <<"c", "a">>]]}

\* a request that calls get, changes and a method that is not there
MixedRequests ==
    {Request(TRUE, "array",
        <<Item(3, MethodName(<<"Email/get">>), ArgsObject,
               JSStr(<<"c", "1">>)),
          Item(3, MethodName(<<"Email/changes">>),
               [ArgsObject EXCEPT !.sinceState = JSStr(<<"0">>)],
               JSStr(<<"c", "2">>))>>),
     Request(TRUE, "array",
        <<Item(3, MethodName(<<"Foo/bar">>), ArgsObject,
               JSStr(<<"c", "1">>))>>)}

\* the records the store is filled with before process is called
ProcessBatches ==
    {<<[id |-> "a", subject |-> "x", threadId |-> "t"]>>,
     <<[id |-> "c", subject |-> Absent, threadId |-> Absent]>>}

NoRead == [pc |-> "idle", kind |-> "none", args |-> NoArgs,
           fetch |-> "direct", sinceState |-> JSUndefined,
           maxChanges |-> JSUndefined, st |-> <<>>, mt |-> <<>>,
           get |-> NoGet, changes |-> NoCall]

\* ------------------------------------------------------------------------
\* Initial state: the stores as setup() leaves them
\* ------------------------------------------------------------------------
\* metaStore.put({typeName, highestModSeq: 0, lowestModSeq: 0})
InitialMeta == [highestModSeq |-> 0, lowestModSeq |-> 0]

Init ==
    /\ store = [id \in Ids |-> NoRecord]
    /\ meta = InitialMeta
    /\ wpc = [w \in Writers |-> "idle"]
    /\ wrecords = [w \in Writers |-> <<>>]
    /\ wmeta = [w \in Writers |-> InitialMeta]
    /\ wexisting = [w \in Writers |-> <<>>]
    /\ assigned = <<>>
    /\ lastWrite = NoWrite
    /\ lastCall = NoCall
    /\ chain = NoChain
    /\ rd = NoRead
    /\ proc = NoProcess

\* ------------------------------------------------------------------------
\* The storage collaborator (Database.js, IndexedDB)
\* ------------------------------------------------------------------------
\* A 'readwrite' transaction over ['Meta', typeName] starts only when no
\* other one over the same stores is open.
TxCanStart(w) == \A v \in Writers \ {w} : wpc[v] # "active"

\* A transaction whose body throws is aborted: none of its puts is kept.
RolledBack(committed, dirty) == committed

AllIdle == \A w \in Writers : wpc[w] = "idle"

\* ------------------------------------------------------------------------
\* Actions of addRecords
\* ------------------------------------------------------------------------
\* addRecords is called: the transaction is requested (line 63). The
\* records argument does not depend on the stores; it is drawn when the
\* transaction body starts to run.
AddRecords(w) ==
    /\ wpc[w] = "idle"
    /\ meta.highestModSeq < MaxModSeq
    /\ wpc' = [wpc EXCEPT ![w] = "queued"]
    /\ lastWrite' = NoWrite
    /\ lastCall' = NoCall
    /\ chain' = NoChain
    /\ UNCHANGED <<store, meta, wrecords, wmeta, wexisting, assigned>>

\* lines 66-71: the body reads meta and the existing records. A get of an
\* undefined key throws, which rejects the body before any put.
AddTxRead(w, records) ==
    /\ wpc[w] = "queued"
    /\ TxCanStart(w)
    /\ meta.highestModSeq + Len(records) <= MaxModSeq
    /\ lastCall' = NoCall
    /\ chain' = NoChain
    /\ IF \E i \in 1..Len(records) : ~IsValidKey(records[i].id)
       THEN /\ wpc' = [wpc EXCEPT ![w] = "idle"]
            /\ lastWrite' = [valid |-> TRUE, records |-> records,
                             before |-> store,
                             beforeHighest |-> meta.highestModSeq,
                             outcome |-> "DataError"]
            /\ UNCHANGED <<store, meta, wrecords, wmeta, wexisting, assigned>>
       ELSE /\ wpc' = [wpc EXCEPT ![w] = "active"]
            /\ wrecords' = [wrecords EXCEPT ![w] = records]
            /\ wmeta' = [wmeta EXCEPT ![w] = meta]
            /\ wexisting' = [wexisting EXCEPT ![w] =
                   [i \in 1..Len(records) |-> Lookup(store, records[i].id)]]
            /\ lastWrite' = NoWrite
            /\ UNCHANGED <<store, meta, assigned>>

\* the index of the first record the loop throws on, 0 if it throws on none
FirstWithoutId(records) ==
    IF \E i \in 1..Len(records) : IdIsFalsy(records[i].id)
    THEN CHOOSE i \in 1..Len(records) :
            /\ IdIsFalsy(records[i].id)
            /\ \A j \in 1..(i - 1) : ~IdIsFalsy(records[j].id)
    ELSE 0

\* lines 72-92: the loop over the records, the put of meta, the commit
AddTxWrite(w) ==
    LET records == wrecords[w]
        base == wmeta[w].highestModSeq
        bad == FirstWithoutId(records)
        n == Len(records)
    IN  /\ wpc[w] = "active"
        /\ wpc' = [wpc EXCEPT ![w] = "idle"]
        /\ wrecords' = [wrecords EXCEPT ![w] = <<>>]
        /\ wexisting' = [wexisting EXCEPT ![w] = <<>>]
        /\ wmeta' = [wmeta EXCEPT ![w] = InitialMeta]
        /\ lastCall' = NoCall
        /\ chain' = NoChain
        /\ IF bad # 0
           THEN /\ store' = RolledBack(store,
                       PutAll(store, records, wexisting[w], base, bad - 1))
                /\ lastWrite' = [valid |-> TRUE, records |-> records,
                                 before |-> store,
                                 beforeHighest |-> meta.highestModSeq,
                                 outcome |-> "Must have an id!"]
                /\ UNCHANGED <<meta, assigned>>
           ELSE /\ store' = PutAll(store, records, wexisting[w], base, n)
                /\ meta' = AdvancedMeta(wmeta[w], ModSeqAt(base, n))
                /\ assigned' = assigned \o [i \in 1..n |-> ModSeqAt(base, i)]
                /\ lastWrite' = [valid |-> TRUE, records |-> records,
                                 before |-> store,
                                 beforeHighest |-> meta.highestModSeq,
                                 outcome |-> "committed"]

\* A record is deleted by turning it into a tombstone: _deleted is set and
\* _updatedModSeq is bumped, in a mutation transaction of its own.
DestroyRecord(id) ==
    LET modseq == meta.highestModSeq + 1
    IN  /\ AllIdle
        /\ store[id].present
        /\ ~store[id].deleted
        /\ modseq <= MaxModSeq
        /\ store' = [store EXCEPT ![id] =
                        [@ EXCEPT !.updatedModSeq = modseq, !.deleted = TRUE]]
        /\ meta' = [meta EXCEPT !.highestModSeq = modseq]
        /\ assigned' = Append(assigned, modseq)
        /\ lastWrite' = NoWrite
        /\ lastCall' = NoCall
        /\ chain' = NoChain
        /\ UNCHANGED <<wpc, wrecords, wmeta, wexisting>>

\* ------------------------------------------------------------------------
\* Actions of changes
\* ------------------------------------------------------------------------
\* A client calls changes with arguments of its choice. The call reads the
\* stores only, so a call made right after another call returns what it
\* returns when made before it: calls are started from the states in which
\* no response is held.
ChangesCall(sinceState, maxChangesArg) ==
    LET r == Changes(store, meta, sinceState, maxChangesArg)
    IN  /\ ~lastCall.valid
        /\ lastCall' = r
        /\ chain' = IF r.ok
                    THEN [valid |-> TRUE,
                          S |-> parseInt(sinceState.chars).val,
                          M |-> maxChangesArg,
                          next |-> r.newState,
                          pages |-> 1,
                          created |-> r.created,
                          updated |-> r.updated,
                          destroyed |-> r.destroyed,
                          visited |-> r.visited,
                          done |-> ~r.hasMoreChanges]
                    ELSE NoChain
        /\ lastWrite' = NoWrite
        /\ UNCHANGED <<store, meta, wpc, wrecords, wmeta, wexisting, assigned>>

\* The client feeds the newState of the last response back as sinceState.
ChangesNext ==
    LET r == Changes(store, meta, JSStr(chain.next), chain.M)
    IN  /\ chain.valid
        /\ ~chain.done
        /\ lastCall' = r
        /\ chain' = IF r.ok
                    THEN [chain EXCEPT
                             !.next = r.newState,
                             !.pages = @ + 1,
                             !.created = @ \o r.created,
                             !.updated = @ \o r.updated,
                             !.destroyed = @ \o r.destroyed,
                             !.visited = @ \o r.visited,
                             !.done = ~r.hasMoreChanges]
                    ELSE NoChain
        /\ lastWrite' = NoWrite
        /\ UNCHANGED <<store, meta, wpc, wrecords, wmeta, wexisting, assigned>>

\* ------------------------------------------------------------------------
\* Actions of get and changes as read transactions
\* ------------------------------------------------------------------------
\* A 'readonly' transaction sees the stores as they were committed when it
\* started, whatever is committed while it runs.
Snapshot(committedStore, committedMeta) ==
    [st |-> committedStore, mt |-> committedMeta]

\* get is called. Line 237 runs before the transaction is requested.
GetCall(args, fetch) ==
    /\ rd.pc = "idle"
    /\ IF args.ids.kind = "array"
          /\ GreaterThan(Len(args.ids.list), Server.maxObjectsInGet)
       THEN rd' = [NoRead EXCEPT !.pc = "done", !.kind = "get",
                      !.args = args, !.fetch = fetch,
                      !.get = Get(Server, store, meta, args, fetch,
                                  [id \in Ids |-> KeyOrder(id)])]
       ELSE rd' = [NoRead EXCEPT !.pc = "queued", !.kind = "get",
                      !.args = args, !.fetch = fetch]
    /\ UNCHANGED <<store, meta, wpc, wrecords, wmeta, wexisting, assigned,
                   lastWrite, lastCall, chain, proc>>

\* changes is called. Lines 146-167 run before the transaction is requested.
ChangesBegin(sinceState, maxChangesArg) ==
    /\ rd.pc = "idle"
    /\ IF sinceState.type # "string" \/ parseInt(sinceState.chars).isNaN
       THEN rd' = [NoRead EXCEPT !.pc = "done", !.kind = "changes",
                      !.sinceState = sinceState,
                      !.maxChanges = maxChangesArg,
                      !.changes = Changes(store, meta, sinceState,
                                          maxChangesArg)]
       ELSE rd' = [NoRead EXCEPT !.pc = "queued", !.kind = "changes",
                      !.sinceState = sinceState,
                      !.maxChanges = maxChangesArg]
    /\ UNCHANGED <<store, meta, wpc, wrecords, wmeta, wexisting, assigned,
                   lastWrite, lastCall, chain, proc>>

\* the transaction starts: what it will read is fixed
ReadTxBegin ==
    /\ rd.pc = "queued"
    /\ rd' = [rd EXCEPT !.pc = "reading",
                        !.st = Snapshot(store, meta).st,
                        !.mt = Snapshot(store, meta).mt]
    /\ UNCHANGED <<store, meta, wpc, wrecords, wmeta, wexisting, assigned,
                   lastWrite, lastCall, chain, proc>>

\* lines 249-287: the body of the transaction of get, and its result
GetReturn(rank) ==
    /\ rd.pc = "reading"
    /\ rd.kind = "get"
    /\ rd' = [rd EXCEPT !.pc = "done",
                        !.get = Get(Server, rd.st, rd.mt, rd.args, rd.fetch,
                                    rank)]
    /\ UNCHANGED <<store, meta, wpc, wrecords, wmeta, wexisting, assigned,
                   lastWrite, lastCall, chain, proc>>

\* lines 178-231: the body of the transaction of changes, and its result
ChangesReturn ==
    /\ rd.pc = "reading"
    /\ rd.kind = "changes"
    /\ rd' = [rd EXCEPT !.pc = "done",
                        !.changes = Changes(rd.st, rd.mt, rd.sinceState,
                                            rd.maxChanges)]
    /\ UNCHANGED <<store, meta, wpc, wrecords, wmeta, wexisting, assigned,
                   lastWrite, lastCall, chain, proc>>

\* the caller has its response; the next call can be made
ReadDone ==
    /\ rd.pc = "done"
    /\ rd' = NoRead
    /\ UNCHANGED <<store, meta, wpc, wrecords, wmeta, wexisting, assigned,
                   lastWrite, lastCall, chain, proc>>

\* ------------------------------------------------------------------------
\* Actions of process
\* ------------------------------------------------------------------------
\* lines 107-111
isInvocation(item) ==
    /\ item.isArray
    /\ item.name.type = "string"
    /\ item.args.kind \notin {"null", "undefined"}
    /\ item.args.kind = "object"

\* lines 112-116: the condition under which notRequest is raised
NotRequest(request) ==
    \/ request.kind = "absent"
    \/ request.kind # "array"
    \/ \E i \in 1..Len(request.methodCalls) :
           ~isInvocation(request.methodCalls[i])

\* options.methods of the demo: the fetch strategy of a get method
Methods == {<<"Email/get">>, <<"Email/changes">>, <<"Thread/get">>}
FetchOf(name) == IF name = <<"Thread/get">> THEN "thread" ELSE "direct"

\* `ok ? name : 'error'`
Label(ok, name) == IF ok THEN name ELSE <<"error">>

\* output.push([label, result, callId]); of the result, whether it reports
\* success and the type it carries when it does not
Entry(label, ok, errType, callId) ==
    [label |-> label, ok |-> ok, type |-> errType, callId |-> callId]

\* process is called. `reject` is bound nowhere: evaluating the call at line
\* 100 or line 117 throws a ReferenceError, which rejects the promise
\* process returns.
ProcessCall(request) ==
    /\ proc.pc = "idle"
    /\ IF ~request.present \/ NotRequest(request)
       THEN proc' = [NoProcess EXCEPT !.pc = "rejected", !.request = request,
                                      !.error = "ReferenceError"]
       ELSE proc' = [NoProcess EXCEPT !.pc = "loop", !.request = request,
                                      !.i = 1]
    /\ UNCHANGED <<store, meta, wpc, wrecords, wmeta, wexisting, assigned,
                   lastWrite, lastCall, chain, rd>>

\* lines 125-136, 140: the loop takes the next invocation, or ends
ProcessStep ==
    LET calls == proc.request.methodCalls
        item == calls[proc.i]
    IN  /\ proc.pc = "loop"
        /\ IF proc.i > Len(calls)
           THEN proc' = [proc EXCEPT !.pc = "returned"]
           ELSE IF item.name.chars \notin Methods
           THEN proc' = [proc EXCEPT
                    !.output = Append(@, Entry(<<"error">>, FALSE,
                                               "unknownMethod", item.callId)),
                    !.i = @ + 1]
           ELSE proc' = [proc EXCEPT
                    !.pc = "handler",
                    !.log = Append(@, <<"start", proc.i>>)]
        /\ UNCHANGED <<store, meta, wpc, wrecords, wmeta, wexisting, assigned,
                       lastWrite, lastCall, chain, rd>>

\* what the handler of item answers on the stores (st, mt)
Handled(st, mt, item, rank) ==
    IF item.name.chars = <<"Email/changes">>
    THEN LET r == Changes(st, mt, item.args.sinceState, item.args.maxChanges)
         IN  [outcome |-> IF r.ok THEN "ok" ELSE "error", type |-> r.type]
    ELSE LET r == Get(Server, st, mt,
                      [ids |-> item.args.ids,
                       properties |-> item.args.properties],
                      FetchOf(item.name.chars), rank)
         IN  [outcome |-> r.outcome, type |-> r.type]

\* lines 137-138: the awaited handler settles; a rejection rejects process
ProcessHandlerReturn(rank) ==
    LET item == proc.request.methodCalls[proc.i]
        r == Handled(store, meta, item, rank)
    IN  /\ proc.pc = "handler"
        /\ IF r.outcome = "throw"
           THEN proc' = [proc EXCEPT
                    !.pc = "rejected",
                    !.error = r.type,
                    !.log = Append(@, <<"throw", proc.i>>)]
           ELSE proc' = [proc EXCEPT
                    !.pc = "loop",
                    !.output = Append(@,
                        Entry(Label(r.outcome = "ok", item.name.chars),
                              r.outcome = "ok", r.type, item.callId)),
                    !.log = Append(@, <<"return", proc.i>>),
                    !.i = @ + 1]
        /\ UNCHANGED <<store, meta, wpc, wrecords, wmeta, wexisting, assigned,
                       lastWrite, lastCall, chain, rd>>

\* the caller has the output, or the rejection
ProcessDone ==
    /\ proc.pc \in {"returned", "rejected"}
    /\ proc' = NoProcess
    /\ UNCHANGED <<store, meta, wpc, wrecords, wmeta, wexisting, assigned,
                   lastWrite, lastCall, chain, rd>>

\* ------------------------------------------------------------------------
\* Specifications
\* ------------------------------------------------------------------------
PlainBatches == SeqsUpTo(PlainRecords, MaxBatch)
AnyBatches == SeqsUpTo(AnyRecords, MaxBatch)

\* One writer, the tombstone writer, and a client of changes that calls
\* between the mutation transactions.
Call == AddRecords(1) /\ UNCHANGED readvars
Read == \E records \in PlainBatches :
            AddTxRead(1, records) /\ UNCHANGED readvars
Write == AddTxWrite(1) /\ UNCHANGED readvars
Destroy == \E id \in Ids : DestroyRecord(id) /\ UNCHANGED readvars
Query == \E s \in SinceStates, m \in MaxChangesArgs :
            AllIdle /\ ChangesCall(s, m) /\ UNCHANGED readvars
Resume == AllIdle /\ ChangesNext /\ UNCHANGED readvars

Next == Call \/ Read \/ Write \/ Destroy \/ Query \/ Resume

Spec == Init /\ [][Next]_vars

\* The same without the tombstone writer: the stores addRecords can reach.
NextAdd == Call \/ Read \/ Write \/ Query \/ Resume

SpecAdd == Init /\ [][NextAdd]_vars

\* Two concurrent callers of addRecords, with records of every shape.
CallAny == \E w \in Writers : AddRecords(w) /\ UNCHANGED readvars
ReadAny == \E w \in Writers, records \in AnyBatches :
              AddTxRead(w, records) /\ UNCHANGED readvars
WriteAny == \E w \in Writers : AddTxWrite(w) /\ UNCHANGED readvars

NextWriters == CallAny \/ ReadAny \/ WriteAny

SpecWriters == Init /\ [][NextWriters]_vars

\* changes with every kind of maxChanges, on stores addRecords has written
QueryWide == \E s \in WideSinceStates, m \in WideMaxChangesArgs :
                 AllIdle /\ ChangesCall(s, m) /\ UNCHANGED readvars
NextLimits == Call \/ Read \/ Write \/ QueryWide

SpecLimits == Init /\ [][NextLimits]_vars

\* get, by ids and for the whole collection, with both fetch strategies, on
\* stores filled with records that carry data fields. A call is made when
\* no mutation is under way and is answered before the next one.
NoReadOpen == rd.pc = "idle" /\ proc.pc = "idle"
CallData == NoReadOpen /\ AddRecords(1) /\ UNCHANGED readvars
ReadData == \E records \in DataBatches :
                AddTxRead(1, records) /\ UNCHANGED readvars
WriteData == AddTxWrite(1) /\ UNCHANGED readvars
DestroyData == \E id \in Ids :
                   NoReadOpen /\ DestroyRecord(id) /\ UNCHANGED readvars
GetDirect == \E args \in GetArgs : AllIdle /\ GetCall(args, "direct")
GetThread == \E args \in ThreadGetArgs : AllIdle /\ GetCall(args, "thread")
GetTxBegin == rd.kind = "get" /\ ReadTxBegin
GetTxEnd == \E rank \in Ranks : GetReturn(rank)
GetDone == rd.kind = "get" /\ ReadDone
NextGet ==
    \/ CallData \/ ReadData \/ WriteData \/ DestroyData
    \/ GetDirect \/ GetThread \/ GetTxBegin \/ GetTxEnd \/ GetDone

SpecGet == Init /\ [][NextGet]_vars

\* get and changes while addRecords commits: the transaction of a read is
\* requested, starts and ends with steps of addRecords in between
Unanswered == rd.pc # "done"
CallMid == Unanswered /\ AddRecords(1) /\ UNCHANGED readvars
ReadMid == \E records \in ReaderBatches :
               Unanswered /\ AddTxRead(1, records) /\ UNCHANGED readvars
WriteMid == Unanswered /\ AddTxWrite(1) /\ UNCHANGED readvars
ChangesMid == \E s \in ReaderSinceStates, m \in ReaderMaxChanges :
                  ChangesBegin(s, m)
GetMid == \E args \in ReaderGetArgs : GetCall(args, "direct")
NextReaders ==
    \/ CallMid \/ ReadMid \/ WriteMid
    \/ ChangesMid \/ GetMid \/ ReadTxBegin \/ ChangesReturn \/ GetTxEnd
    \/ ReadDone

SpecReaders == Init /\ [][NextReaders]_vars

\* process, on stores filled before it is called
CallFill == NoReadOpen /\ AddRecords(1) /\ UNCHANGED readvars
ReadFill == \E records \in ProcessBatches :
                AddTxRead(1, records) /\ UNCHANGED readvars
WriteFill == AddTxWrite(1) /\ UNCHANGED readvars
Process == \E request \in Requests : AllIdle /\ ProcessCall(request)
HandlerReturn == \E rank \in Ranks : ProcessHandlerReturn(rank)
NextProcess ==
    \/ CallFill \/ ReadFill \/ WriteFill
    \/ Process \/ ProcessStep \/ HandlerReturn \/ ProcessDone

SpecProcess == Init /\ [][NextProcess]_vars

\* every operation of the server: addRecords from two callers, with batches
\* that commit and batches that fail, and get, changes and process between
\* them
CallBetween == NoReadOpen /\ CallAny
ChangesBetween == /\ AllIdle /\ proc.pc = "idle"
                  /\ ChangesBegin(JSStr(<<"0">>), JSNum(1))
GetBetween == AllIdle /\ proc.pc = "idle" /\ GetCall(NoArgs, "direct")
ProcessBetween == \E request \in MixedRequests :
                      AllIdle /\ rd.pc = "idle" /\ ProcessCall(request)
NextServer ==
    \/ CallBetween \/ ReadAny \/ WriteAny
    \/ ChangesBetween \/ GetBetween \/ ReadTxBegin \/ ChangesReturn
    \/ GetTxEnd \/ ReadDone
    \/ ProcessBetween \/ ProcessStep \/ HandlerReturn \/ ProcessDone

SpecServer == Init /\ [][NextServer]_vars

\* ------------------------------------------------------------------------
\* Properties
\* ------------------------------------------------------------------------
Range(q) == {q[i] : i \in 1..Len(q)}

NoDuplicates(q) == \A i, j \in 1..Len(q) : i # j => q[i] # q[j]

Stored == {id \in Ids : store[id].present}

\* C1: the modseq values given to committed record writes are strictly
\* increasing in the order they are given, so none is given twice; no two
\* stored records share an _updatedModSeq; and no two addRecords
\* transactions are inside their body at once holding the same
\* highestModSeq.
ModSeqNeverReused ==
    /\ \A i, j \in 1..Len(assigned) : i < j => assigned[i] < assigned[j]
    /\ \A x, y \in Stored :
          x # y => store[x].updatedModSeq # store[y].updatedModSeq
    /\ \A v, w \in Writers :
          (v # w /\ wpc[v] = "active" /\ wpc[w] = "active")
              => wmeta[v].highestModSeq # wmeta[w].highestModSeq

\* two calls are in flight at once, one inside its transaction, after a
\* batch of several records was committed
TwoCallsInFlight ==
    /\ wpc[1] = "active" /\ wpc[2] = "queued"
    /\ Len(wrecords[1]) = MaxBatch
    /\ Len(assigned) >= 2
    /\ Cardinality(Stored) = 2

\* The previous value of a key at the time of its put: the record the
\* earlier writes left there, those of the same batch included.
RECURSIVE MergeInOrder(_, _, _, _)
MergeInOrder(st, records, base, n) ==
    IF n = 0 THEN st
    ELSE LET before == MergeInOrder(st, records, base, n - 1)
             id == records[n].id
             prev == before[id]
             modseq == base + n
         IN  [before EXCEPT ![id] =
                 [present |-> TRUE,
                  createdModSeq |-> IF prev.present THEN prev.createdModSeq
                                    ELSE modseq,
                  updatedModSeq |-> modseq,
                  deleted |-> FALSE,
                  subject |-> IF records[n].subject = Absent
                              THEN prev.subject ELSE records[n].subject,
                  threadId |-> IF records[n].threadId = Absent
                               THEN prev.threadId ELSE records[n].threadId]]

HasBadId(records) == \E i \in 1..Len(records) : records[i].id \in {NoId, EmptyId}

\* C9: a batch with a missing or empty id fails with the id-required error
\* and leaves the stores as they were; any other batch has all its records
\* and the new highestModSeq in the stores together.
AddRecordsAllOrNothing ==
    lastWrite.valid =>
        IF HasBadId(lastWrite.records)
        THEN /\ lastWrite.outcome = "Must have an id!"
             /\ store = lastWrite.before
             /\ meta.highestModSeq = lastWrite.beforeHighest
        ELSE /\ lastWrite.outcome = "committed"
             /\ \A i \in 1..Len(lastWrite.records) :
                   store[lastWrite.records[i].id].present
             /\ meta.highestModSeq =
                   lastWrite.beforeHighest + Len(lastWrite.records)

\* (what does hold of C9) whatever the error, a failed batch leaves the
\* stores as they were
FailedBatchLeavesNoTrace ==
    (lastWrite.valid /\ HasBadId(lastWrite.records)) =>
        /\ lastWrite.outcome # "committed"
        /\ store = lastWrite.before
        /\ meta.highestModSeq = lastWrite.beforeHighest

\* C10: after a committed batch every record is the in-order shallow merge
\* over the record previously stored under its id, earlier records of the
\* same batch included, with _createdModSeq kept for an id that existed.
BatchMergesInOrder ==
    (lastWrite.valid /\ lastWrite.outcome = "committed") =>
        store = MergeInOrder(lastWrite.before, lastWrite.records,
                             lastWrite.beforeHighest, Len(lastWrite.records))

\* (what does hold of C10) the same for batches that name no id twice
DistinctIdBatchMergesInOrder ==
    (/\ lastWrite.valid
     /\ lastWrite.outcome = "committed"
     /\ \A i, j \in 1..Len(lastWrite.records) :
           i # j => lastWrite.records[i].id # lastWrite.records[j].id) =>
        store = MergeInOrder(lastWrite.before, lastWrite.records,
                             lastWrite.beforeHighest, Len(lastWrite.records))

\* ------------------------------------------------------------------------
\* Properties of changes
\* ------------------------------------------------------------------------
CallSince == parseInt(lastCall.sinceState.chars).val

CallInRange == lastCall.maxChanges.type = "number"
               /\ lastCall.maxChanges.n \in 1..MaxChangesCap

Reported(r) == Range(r.created) \cup Range(r.updated) \cup Range(r.destroyed)

ReportedCount(r) == Len(r.created) + Len(r.updated) + Len(r.destroyed)

\* a tombstone of a record that was created after the token
Transient(id, since) ==
    store[id].present /\ store[id].deleted /\ store[id].createdModSeq > since

Max(a, b) == IF a > b THEN a ELSE b

\* C2: a chain of changes calls over unchanged stores (stores that addRecords
\* wrote) takes no more calls than there are records after S, names no id
\* twice, and once it ended has named every record after S.
PaginationResumes ==
    chain.valid =>
        /\ chain.pages <= Max(1, Cardinality(InRange(store, chain.S)))
        /\ NoDuplicates(chain.created \o chain.updated \o chain.destroyed)
        /\ chain.done => Reported(chain) = InRange(store, chain.S)

ThreePageChain ==
    /\ chain.valid /\ chain.done /\ chain.pages = 3
    /\ Cardinality(Reported(chain)) = 3

\* C3 as stated: after N > maxChanges mutations since S the response has
\* exactly maxChanges ids, hasMoreChanges, and the modseq of the last id
\* returned as newState.
TruncatesAfterManyMutations ==
    (/\ lastCall.valid /\ lastCall.ok /\ CallInRange
     /\ Cardinality({i \in 1..Len(assigned) : assigned[i] > CallSince})
            > lastCall.maxChanges.n) =>
        /\ ReportedCount(lastCall) = lastCall.maxChanges.n
        /\ lastCall.hasMoreChanges
        /\ \E id \in Reported(lastCall) :
              /\ lastCall.newState = NumberToString(store[id].updatedModSeq)
              /\ \A other \in Reported(lastCall) :
                    store[other].updatedModSeq <= store[id].updatedModSeq

\* C3 amended: when more than maxChanges records lie after S the call
\* visits the maxChanges records of lowest _updatedModSeq, each once, sets
\* hasMoreChanges, returns the last visited record's modseq as newState, and
\* names every visited record once except the transient tombstones.
TruncatesAfterManyRecords ==
    (/\ lastCall.valid /\ lastCall.ok /\ CallInRange
     /\ Cardinality(InRange(store, CallSince)) > lastCall.maxChanges.n) =>
        LET seen == Range(lastCall.visited)
            kept == {id \in seen : ~Transient(id, CallSince)}
        IN  /\ lastCall.hasMoreChanges
            /\ Len(lastCall.visited) = lastCall.maxChanges.n
            /\ NoDuplicates(lastCall.visited)
            /\ seen \subseteq InRange(store, CallSince)
            /\ \A v \in seen, o \in InRange(store, CallSince) \ seen :
                  store[v].updatedModSeq < store[o].updatedModSeq
            /\ \E id \in seen :
                  /\ lastCall.newState =
                        NumberToString(store[id].updatedModSeq)
                  /\ \A v \in seen :
                        store[v].updatedModSeq <= store[id].updatedModSeq
            /\ Reported(lastCall) = kept
            /\ ReportedCount(lastCall) = Cardinality(kept)

TruncatedPage ==
    /\ lastCall.valid /\ lastCall.ok /\ lastCall.hasMoreChanges
    /\ lastCall.maxChanges = JSNum(2)
    /\ ReportedCount(lastCall) = 2
    /\ Cardinality(InRange(store, CallSince)) = 3

\* C4: over a chain started at S, a live record created after S is never
\* named in updated and, once the chain ended, was named in created; an id
\* named in updated is of a record that existed at S.
ChainClassifiesAgainstStart ==
    chain.valid =>
        /\ \A id \in Stored :
              (~store[id].deleted /\ store[id].createdModSeq > chain.S) =>
                  /\ id \notin Range(chain.updated)
                  /\ chain.done => id \in Range(chain.created)
        /\ \A id \in Range(chain.updated) : store[id].createdModSeq <= chain.S

\* C5: a response with hasMoreChanges = false from S, lowestModSeq <= S <
\* highestModSeq, has in created exactly the live records created after S,
\* in updated exactly the live records created up to S and updated after
\* it, no id in two lists or twice in one, and highestModSeq as newState.
FinalPageIsExactDiff ==
    (/\ lastCall.valid /\ lastCall.ok /\ ~lastCall.hasMoreChanges
     /\ meta.lowestModSeq <= CallSince
     /\ CallSince < meta.highestModSeq) =>
        /\ Range(lastCall.created) =
              {id \in Stored : /\ ~store[id].deleted
                               /\ store[id].createdModSeq > CallSince}
        /\ Range(lastCall.updated) =
              {id \in Stored : /\ ~store[id].deleted
                               /\ store[id].createdModSeq <= CallSince
                               /\ CallSince < store[id].updatedModSeq}
        /\ NoDuplicates(lastCall.created \o lastCall.updated
                            \o lastCall.destroyed)
        /\ lastCall.newState = NumberToString(meta.highestModSeq)

CreatedThenUpdatedAfterSince ==
    /\ lastCall.valid /\ lastCall.ok /\ ~lastCall.hasMoreChanges
    /\ CallSince < meta.highestModSeq
    /\ lastCall.updated # <<>>
    /\ \E id \in Range(lastCall.created) :
          /\ CallSince < store[id].createdModSeq
          /\ store[id].createdModSeq < store[id].updatedModSeq

\* C6: a call whose sinceState is the string of the current highestModSeq
\* succeeds with three empty lists, hasMoreChanges = false and newState
\* equal to sinceState, whatever maxChanges is.
NoOpResync ==
    (/\ lastCall.valid
     /\ lastCall.sinceState = JSStr(NumberToString(meta.highestModSeq))) =>
        /\ lastCall.ok
        /\ lastCall.created = <<>>
        /\ lastCall.updated = <<>>
        /\ lastCall.destroyed = <<>>
        /\ ~lastCall.hasMoreChanges
        /\ lastCall.newState = lastCall.sinceState.chars

ResyncOfFilledStore ==
    /\ lastCall.valid /\ lastCall.ok
    /\ lastCall.sinceState = JSStr(NumberToString(meta.highestModSeq))
    /\ lastCall.maxChanges = JSNum(1)
    /\ Cardinality(Stored) = 3

\* C7 as stated: a tombstone created after sinceModSeq is in no list of the
\* response; a tombstone created up to sinceModSeq and updated after it is
\* in destroyed, and in destroyed only.
TombstonesSuppressedOrDestroyed ==
    (lastCall.valid /\ lastCall.ok) =>
        \A id \in Stored :
            /\ Transient(id, CallSince) => id \notin Reported(lastCall)
            /\ (/\ store[id].deleted
                /\ store[id].createdModSeq <= CallSince
                /\ CallSince < store[id].updatedModSeq) =>
                   /\ id \in Range(lastCall.destroyed)
                   /\ id \notin Range(lastCall.created)
                   /\ id \notin Range(lastCall.updated)

\* C7 amended: the second half holds of the tombstones the scan visits, all
\* of them when hasMoreChanges = false; one it does not visit is in no list.
TombstonesSuppressedOrDestroyedIfVisited ==
    (lastCall.valid /\ lastCall.ok) =>
        \A id \in Stored :
            /\ Transient(id, CallSince) => id \notin Reported(lastCall)
            /\ (/\ store[id].deleted
                /\ store[id].createdModSeq <= CallSince
                /\ CallSince < store[id].updatedModSeq) =>
                   /\ id \in Range(lastCall.destroyed)
                         <=> id \in Range(lastCall.visited)
                   /\ ~lastCall.hasMoreChanges
                         => id \in Range(lastCall.visited)
                   /\ id \notin Range(lastCall.created)
                   /\ id \notin Range(lastCall.updated)

TransientAndDestroyedVisited ==
    /\ lastCall.valid /\ lastCall.ok
    /\ \E id \in Range(lastCall.visited) : Transient(id, CallSince)
    /\ lastCall.destroyed # <<>>

\* C8: a sinceState that is no string, or parses to no number, or parses to
\* a negative number, fails with invalidArguments.
Malformed(v) ==
    \/ v.type # "string"
    \/ parseInt(v.chars).isNaN
    \/ parseInt(v.chars).val < 0

MalformedSinceStateIsInvalidArguments ==
    (lastCall.valid /\ Malformed(lastCall.sinceState)) =>
        /\ ~lastCall.ok
        /\ lastCall.type = "invalidArguments"

\* (what does hold of C8) a malformed sinceState fails, with
\* invalidArguments exactly when it is no string
MalformedSinceStateFails ==
    (lastCall.valid /\ Malformed(lastCall.sinceState)) =>
        /\ ~lastCall.ok
        /\ lastCall.type = IF lastCall.sinceState.type # "string"
                           THEN "invalidArguments"
                           ELSE "cannotCalculateChanges"

\* ------------------------------------------------------------------------
\* Properties of get
\* ------------------------------------------------------------------------
Returned == rd.pc = "done" /\ rd.kind = "get"

\* C11: get fails with requestTooLarge whenever more objects are asked for
\* than the configured cap: an ids list longer than the cap fails before any
\* transaction is opened, a collection larger than the cap fails when ids is
\* omitted, and no successful get returns a list longer than the cap.
GetFailsAboveCap ==
    Returned =>
        /\ (rd.args.ids.kind = "array"
            /\ Len(rd.args.ids.list) > OptionsMaxObjectsInGet) =>
               /\ rd.get.outcome = "error"
               /\ rd.get.type = "requestTooLarge"
               /\ ~rd.get.transaction
        /\ (rd.args.ids.kind = "null"
            /\ Count(rd.st) > OptionsMaxObjectsInGet) =>
               /\ rd.get.outcome = "error"
               /\ rd.get.type = "requestTooLarge"
        /\ rd.get.outcome = "ok" => Len(rd.get.list) <= OptionsMaxObjectsInGet

\* whether the snapshot of the call holds something for id under its
\* fetch strategy: a record with that key, or a record of that thread
Present(id) ==
    IF rd.fetch = "thread"
    THEN \E x \in Ids : rd.st[x].present /\ rd.st[x].threadId = id
    ELSE id \in Ids /\ rd.st[id].present

PresentIds(ids) == SelectSeq(ids, LAMBDA id : Present(id))
AbsentIds(ids) == SelectSeq(ids, LAMBDA id : ~Present(id))

\* C12: a get with an ids list resolves every position of ids to one entry
\* of list or one entry of notFound: list holds the results of the present
\* ids and notFound the absent ids, each in the order of ids.
GetPartitionsIds ==
    (Returned /\ rd.args.ids.kind = "array" /\ rd.get.outcome = "ok") =>
        LET ids == rd.args.ids.list
            list == rd.get.list
        IN  /\ Len(list) + Len(rd.get.notFound) = Len(ids)
            /\ rd.get.notFound = AbsentIds(ids)
            /\ [i \in 1..Len(list) |-> list[i]["id"].chars[1]]
                   = PresentIds(ids)

GetFoundTwoMissedOne ==
    /\ Returned /\ rd.args.ids.kind = "array" /\ rd.get.outcome = "ok"
    /\ Len(rd.get.list) >= 2
    /\ rd.get.list[1] # rd.get.list[2]
    /\ Len(rd.get.notFound) >= 1

\* the keys the projection of record id onto `names` is to have: id, and the
\* requested data fields the stored record holds a non-null value for
ExpectedKeys(id, names) ==
    {"id"}
    \cup {p \in Elements(names) :
             \/ p = "subject" /\ rd.st[id].subject \notin {Absent, "null"}
             \/ p = "threadId" /\ rd.st[id].threadId \notin {Absent, "null"}}

IsProjection(element) ==
    LET id == element["id"].chars[1]
    IN  /\ DOMAIN element = ExpectedKeys(id, rd.args.properties.names)
        /\ \A k \in DOMAIN element : element[k] # JSNull

\* C13: every element of the list of a successful get with a non-null
\* properties argument, ids given or omitted, holds id and exactly the
\* requested properties whose stored value is non-null.
GetProjects ==
    (Returned /\ rd.fetch = "direct" /\ rd.get.outcome = "ok"
     /\ rd.args.properties.given) =>
        \A i \in 1..Len(rd.get.list) : IsProjection(rd.get.list[i])

\* (what does hold of C13) the projection is applied when ids is given
GetProjectsGivenIds ==
    (Returned /\ rd.fetch = "direct" /\ rd.get.outcome = "ok"
     /\ rd.args.properties.given /\ rd.args.ids.kind = "array") =>
        \A i \in 1..Len(rd.get.list) : IsProjection(rd.get.list[i])

\* ------------------------------------------------------------------------
\* Properties of process
\* ------------------------------------------------------------------------
\* a 3-element invocation [name: string, args: object, callId: string]
WellFormedInvocation(item) ==
    /\ item.isArray
    /\ item.len = 3
    /\ item.name.type = "string"
    /\ item.args.kind = "object"
    /\ item.callId.type = "string"

WellFormedRequest(request) ==
    /\ request.present
    /\ request.kind = "array"
    /\ \A i \in 1..Len(request.methodCalls) :
           WellFormedInvocation(request.methodCalls[i])

Ended == proc.pc \in {"returned", "rejected"}

\* handler i + 1 starts only after handler i has returned
OneAtATime ==
    \A k \in 1..Len(proc.log) :
        proc.log[k][1] = "start" =>
            /\ \A j \in 1..(k - 1) : proc.log[j][2] < proc.log[k][2]
            /\ k < Len(proc.log) =>
                   /\ proc.log[k + 1][1] \in {"return", "throw"}
                   /\ proc.log[k + 1][2] = proc.log[k][2]

\* entry i answers invocation i: its callId, and the label its outcome asks
AnswersInOrder ==
    \A i \in 1..Len(proc.output) :
        LET item == proc.request.methodCalls[i]
            entry == proc.output[i]
        IN  /\ entry.callId = item.callId
            /\ entry.label = IF entry.ok THEN item.name.chars ELSE <<"error">>
            /\ item.name.chars \notin Methods =>
                   ~entry.ok /\ entry.type = "unknownMethod"
            /\ item.name.chars \in Methods =>
                   \E rank \in Ranks :
                       LET alone == Handled(store, meta, item, rank)
                       IN  /\ entry.ok = (alone.outcome = "ok")
                           /\ entry.type = alone.type

\* C14: for every well-formed batch of n invocations process runs the
\* handlers one at a time in input order and returns n entries in input
\* order, entry i with the callId of invocation i and the label of its
\* outcome, whatever the other invocations come to.
ProcessAnswersEveryCall ==
    /\ OneAtATime
    /\ (Ended /\ WellFormedRequest(proc.request)) =>
           /\ proc.pc = "returned"
           /\ Len(proc.output) = Len(proc.request.methodCalls)
           /\ AnswersInOrder

\* (what does hold of C14) the same, of the calls that return
ProcessAnswersEveryCallIfNoneThrows ==
    /\ OneAtATime
    /\ (proc.pc = "returned" /\ WellFormedRequest(proc.request)) =>
           /\ Len(proc.output) = Len(proc.request.methodCalls)
           /\ AnswersInOrder

\* C15: a request that is absent, or whose methodCalls is absent or no
\* array or holds an element that is no 3-element invocation, is rejected
\* with notJSON or notRequest before any handler runs and without entries.
ProcessRejectsMalformed ==
    (proc.pc # "idle" /\ ~WellFormedRequest(proc.request)) =>
        /\ proc.pc = "rejected"
        /\ proc.error \in {"notJSON", "notRequest"}
        /\ proc.log = <<>>
        /\ proc.output = <<>>

\* (what does hold of C15) a request the test at lines 99-116 refuses is
\* rejected before any handler runs, with a ReferenceError
ProcessRejectsWhatItRefuses ==
    (proc.pc # "idle"
     /\ (~proc.request.present \/ NotRequest(proc.request))) =>
        /\ proc.pc = "rejected"
        /\ proc.error = "ReferenceError"
        /\ proc.log = <<>>
        /\ proc.output = <<>>

\* ------------------------------------------------------------------------
\* Properties of reads under concurrent writes
\* ------------------------------------------------------------------------
Answered(kind) == rd.pc = "done" /\ rd.kind = kind

\* the largest _updatedModSeq of the records of st, 0 when it holds none
Largest(S) == CHOOSE m \in S : \A k \in S : k <= m

HighestUpdated(st) ==
    Largest({0} \cup {st[id].updatedModSeq :
                         id \in {x \in DOMAIN st : st[x].present}})

\* C16: a read sees the stores as one transaction of addRecords left them,
\* whatever is committed while it runs. Every id a successful changes
\* reports is of a record with sinceModSeq < _updatedModSeq <= newState, with
\* hasMoreChanges=false newState is the highestModSeq read at the start of
\* the transaction, and no record get returns has _updatedModSeq > state.
ReadsSeeOneSnapshot ==
    /\ (rd.pc \in {"reading", "done"} /\ rd.st # <<>>) =>
           rd.mt.highestModSeq = HighestUpdated(rd.st)
    /\ (Answered("changes") /\ rd.changes.ok) =>
           LET since == parseInt(rd.sinceState.chars).val
               newState == parseInt(rd.changes.newState).val
               reported == Range(rd.changes.created)
                               \cup Range(rd.changes.updated)
                               \cup Range(rd.changes.destroyed)
           IN  /\ \A id \in reported :
                      /\ rd.st[id].present
                      /\ rd.st[id].updatedModSeq > since
                      /\ rd.st[id].updatedModSeq <= newState
               /\ ~rd.changes.hasMoreChanges =>
                      newState = rd.mt.highestModSeq
    /\ (Answered("get") /\ rd.get.outcome = "ok") =>
           LET state == parseInt(rd.get.state).val
           IN  \A i \in 1..Len(rd.get.list) :
                   /\ Prop(rd.get.list[i], "_updatedModSeq").n <= state
                   /\ rd.st[rd.get.list[i]["id"].chars[1]].updatedModSeq
                          <= state

\* a changes and a get answered after a commit that came while they read
ReadOvertakenByCommit ==
    /\ rd.pc = "done"
    /\ rd.st # <<>>
    /\ rd.mt.highestModSeq < meta.highestModSeq
    /\ \/ rd.kind = "changes" /\ rd.changes.ok /\ rd.changes.created # <<>>
       \/ rd.kind = "get" /\ rd.get.outcome = "ok" /\ rd.get.list # <<>>

\* ------------------------------------------------------------------------
\* Properties of the watermark
\* ------------------------------------------------------------------------
\* highestModSeq is the largest modseq assigned so far, 0 when none was,
\* and the largest _updatedModSeq of the stored records
WatermarkIsLastAssigned ==
    /\ meta.highestModSeq = Largest(Range(assigned) \cup {0})
    /\ meta.highestModSeq = HighestUpdated(store)

\* a step never lowers highestModSeq; a step of get, changes or process
\* leaves it alone
WatermarkStep ==
    /\ meta'.highestModSeq >= meta.highestModSeq
    /\ (rd' # rd \/ proc' # proc) => meta' = meta

\* C17: in every committed state highestModSeq is the largest modseq ever
\* assigned (0 if none, else the largest _updatedModSeq stored); it never
\* decreases, and get, changes and process never change it.
WatermarkOnlyAdvances == []WatermarkIsLastAssigned /\ [][WatermarkStep]_vars

\* process has answered get and changes on a store in which a record was
\* overwritten after a batch of another caller failed or committed
ProcessAnsweredAfterOverwrites ==
    /\ proc.pc = "returned"
    /\ Len(proc.output) = 2
    /\ meta.highestModSeq >= 3
    /\ Cardinality({id \in Ids : store[id].present}) < meta.highestModSeq

\* ------------------------------------------------------------------------
\* Properties of the limit and of the state tokens of changes
\* ------------------------------------------------------------------------
\* the limit in force: maxChanges when it lies in 1..1024, 1024 otherwise
LimitInForce(arg) ==
    IF arg.type = "number" /\ arg.n >= 1 /\ arg.n <= 1024 THEN arg.n
    ELSE 1024

After(modseq) == {id \in Ids : store[id].present
                                   /\ store[id].updatedModSeq > modseq}

\* C19: hasMoreChanges is true exactly when a record with _updatedModSeq
\* greater than newState is stored; when exactly maxChanges records lie
\* after sinceModSeq all are reported with hasMoreChanges=false and
\* newState = highestModSeq; hasMoreChanges=true comes with
\* newState < highestModSeq.
HasMoreIffRecordsLeft ==
    (lastCall.valid /\ lastCall.ok) =>
        LET newState == parseInt(lastCall.newState).val
        IN  /\ lastCall.hasMoreChanges <=> After(newState) # {}
            /\ Cardinality(After(CallSince))
                   = LimitInForce(lastCall.maxChanges) =>
                   /\ ~lastCall.hasMoreChanges
                   /\ Range(lastCall.visited) = After(CallSince)
                   /\ newState = meta.highestModSeq
            /\ lastCall.hasMoreChanges => newState < meta.highestModSeq

\* exactly maxChanges = 2 records lie after sinceModSeq and a third before
ExactlyLimitLeft ==
    /\ lastCall.valid /\ lastCall.ok
    /\ lastCall.maxChanges = JSNum(2)
    /\ Cardinality(After(CallSince)) = 2
    /\ Cardinality(After(0)) = 3

\* C20: in every successful changes response newState, as an integer, is
\* at least sinceState, as an integer, also for a sinceState greater than
\* highestModSeq.
NewStateNotBeforeSinceState ==
    (lastCall.valid /\ lastCall.ok) =>
        parseInt(lastCall.newState).val >= CallSince

\* (what does hold of C20) newState is at least a sinceState that is not
\* ahead of highestModSeq
NewStateNotBeforeReachedSinceState ==
    (lastCall.valid /\ lastCall.ok /\ CallSince <= meta.highestModSeq) =>
        parseInt(lastCall.newState).val >= CallSince

====
